---- MODULE Spec2Model ----
(***************************************************************************)
(* A model of src/src/stream.ts: the RemoteStream made by makeRemote (the  *)
(* subscription side: audio, video, _videoPreMute and the selections sent  *)
(* on the data channel) and the LocalStream made by makeLocal (the         *)
(* publication side: capture constraints, tracks, the two transceivers of  *)
(* the sender, and the asynchronous switchDevice / unmute / publishTrack). *)
(* With it, modelled from the specification: the session state machine of *)
(* the server that handles the Join and Leave messages of the signalling   *)
(* protocol (src/unnamed/part_000), and the receiver of the selections.    *)
(***************************************************************************)
EXTENDS Bags, FiniteSets, Integers, Sequences, TLC

VARIABLES
    remote,     \* the RemoteStream: [id, audio, video, videoPreMute]
    api,        \* the messages sent on the data channel, in order
    rlog,       \* history: the calls made on the RemoteStream, in order
    constraints,      \* makeLocal's constraints (switchDevice reassigns it)
    tracks,           \* every MediaStreamTrack captured so far; a track is its index
    local,            \* the tracks of the LocalStream (sender.stream)
    slot,             \* sender.transceivers[kind].sender.track (0 is null)
    encodings,        \* the encodings last given to setParameters, per transceiver
    direction,        \* transceiver.direction, per transceiver
    currentDirection, \* transceiver.currentDirection, per transceiver
    calls,            \* the switchDevice / unmute calls awaiting getUserMedia (a bag)
    tasks,            \* the publishTrack calls suspended at an await (a bag)
    ncalls,           \* history: the number of calls made on the LocalStream
    last,             \* history: the step taken last
    race,             \* history: per kind, how the calls made so far overlapped
    session,          \* the session state machine: each peer's [state, room]
    outbox,           \* the SignalReply envelopes sent to each peer, in order
    elog,             \* history: the peer transitions broadcast, in order
    lastReq,          \* history: the request handled last
    arrivals,         \* the messages of api delivered to the receiver, in order
    receiver          \* the selection the receiver has stored

remoteVars == <<remote, api, rlog>>

localVars ==
    <<constraints, tracks, local, slot, encodings, direction, currentDirection,
      calls, tasks, ncalls, last, race>>

sessionVars == <<session, outbox, elog, lastReq>>

channelVars == <<arrivals, receiver>>

\* what a call on the LocalStream, resp. on the RemoteStream, cannot touch
notLocal == <<remoteVars, sessionVars, channelVars>>

notRemote == <<localVars, sessionVars, channelVars>>

vars == <<remoteVars, localVars, sessionVars, channelVars>>

(***************************************************************************)
(* Bounds                                                                  *)
(***************************************************************************)
\* the number of calls made on one RemoteStream
MaxCalls == 4

\* the number of calls made on one LocalStream
MaxLocalCalls == 3

\* the number of tracks captured in all, those of the initial stream included
MaxTracks == 4

\* the number of switchDevice / unmute calls awaiting getUserMedia at a time
MaxInFlight == 2

\* the number of publishTrack calls suspended at a time
MaxTasks == 2

\* the number of requests the session state machine handles
MaxRequests == 4

\* the number of selections sent on a data channel whose deliveries are followed
MaxSent == 3

(***************************************************************************)
(* type Layer, the track kinds                                             *)
(***************************************************************************)
Layer == {"none", "low", "medium", "high"}

Kind == {"audio", "video"}

StreamIds == {"s1", "s2"}

(***************************************************************************)
(* JSON.stringify of the object {streamId, video, audio}: the text, as its *)
(* sequence of tokens. Keys keep the order of the object literal, a string *)
(* is written between quotes, a boolean as the word true or false.         *)
(***************************************************************************)
JSONstring(s) == <<"\"", s, "\"">>

JSONboolean(b) == IF b THEN <<"true">> ELSE <<"false">>

JSONstringify(call) ==
    <<"{">> \o JSONstring("streamId") \o <<":">> \o JSONstring(call.streamId)
    \o <<",">> \o JSONstring("video") \o <<":">> \o JSONstring(call.video)
    \o <<",">> \o JSONstring("audio") \o <<":">> \o JSONboolean(call.audio)
    \o <<"}">>

(***************************************************************************)
(* makeRemote                                                              *)
(***************************************************************************)
makeRemote(id) ==
    [id |-> id, audio |-> TRUE, video |-> "none", videoPreMute |-> "high"]

\* mutant of select: the message carries the video layer only when audio is on
select_delta(r) ==
    JSONstringify([streamId |-> r.id,
                   video |-> IF r.audio THEN r.video ELSE "none",
                   audio |-> r.audio])

\* the message select() sends for the RemoteStream r
select(r) ==
    JSONstringify([streamId |-> r.id, video |-> r.video, audio |-> r.audio])

\* mutant of preferLayer: the layer is also remembered as the one to restore
preferLayer_remembered(r, layer) == [r EXCEPT !.video = layer, !.videoPreMute = layer]

preferLayer(r, layer) == [r EXCEPT !.video = layer]

remote_mute(r, kind) ==
    IF kind = "audio" THEN [r EXCEPT !.audio = FALSE]
    ELSE IF kind = "video"
         THEN [r EXCEPT !.videoPreMute = r.video, !.video = "none"]
         ELSE r

\* mutant of remote_unmute: video comes back at the default layer
remote_unmute_default(r, kind) ==
    IF kind = "audio" THEN [r EXCEPT !.audio = TRUE]
    ELSE IF kind = "video" THEN [r EXCEPT !.video = "high"]
         ELSE r

remote_unmute(r, kind) ==
    IF kind = "audio" THEN [r EXCEPT !.audio = TRUE]
    ELSE IF kind = "video" THEN [r EXCEPT !.video = r.videoPreMute]
         ELSE r

(***************************************************************************)
(* makeLocal: values                                                       *)
(*                                                                         *)
(* constraints.audio and constraints.video are undefined, a boolean or a   *)
(* MediaTrackConstraints object. An object is the set of its               *)
(* <<field, value>> pairs.                                                 *)
(***************************************************************************)
Undefined == [type |-> "undefined", bool |-> FALSE, obj |-> {}]

Bool(b) == [type |-> "boolean", bool |-> b, obj |-> {}]

Obj(o) == [type |-> "object", bool |-> TRUE, obj |-> o]

\* JavaScript truthiness of such a value
truthy(v) == v.type = "object" \/ (v.type = "boolean" /\ v.bool)

\* { ...o, deviceId }
spreadDeviceId(o, deviceId) ==
    {p \in o : p[1] # "deviceId"} \cup {<<"deviceId", deviceId>>}

\* An optional number is the empty set (undefined) or the set of its value;
\* `if (n)` takes a number that is neither undefined nor 0.
truthyNumber(n) == n # {} /\ n # {0}

\* export const VideoConstraints
VideoConstraints ==
    [qvga |-> [resolution |-> {<<"width", "ideal:320">>, <<"height", "ideal:180">>,
                               <<"frameRate", "ideal:15,max:30">>},
               encodings |-> [maxBitrate |-> {150000}, maxFramerate |-> {15}]],
     vga  |-> [resolution |-> {<<"width", "ideal:640">>, <<"height", "ideal:360">>,
                               <<"frameRate", "ideal:30,max:60">>},
               encodings |-> [maxBitrate |-> {500000}, maxFramerate |-> {30}]],
     shd  |-> [resolution |-> {<<"width", "ideal:960">>, <<"height", "ideal:540">>,
                               <<"frameRate", "ideal:30,max:60">>},
               encodings |-> [maxBitrate |-> {1200000}, maxFramerate |-> {30}]],
     hd   |-> [resolution |-> {<<"width", "ideal:1280">>, <<"height", "ideal:720">>,
                               <<"frameRate", "ideal:30,max:60">>},
               encodings |-> [maxBitrate |-> {2500000}, maxFramerate |-> {30}]],
     fhd  |-> [resolution |-> {<<"width", "ideal:1920">>, <<"height", "ideal:1080">>,
                               <<"frameRate", "ideal:30,max:60">>},
               encodings |-> [maxBitrate |-> {4000000}, maxFramerate |-> {30}]],
     qhd  |-> [resolution |-> {<<"width", "ideal:2560">>, <<"height", "ideal:1440">>,
                               <<"frameRate", "ideal:30,max:60">>},
               encodings |-> [maxBitrate |-> {8000000}, maxFramerate |-> {30}]]]

\* computeAudioConstraints: only whether audio is asked for is passed on
computeAudioConstraints(c) == Bool(truthy(c.audio))

computeVideoConstraints(c) ==
    IF c.video.type = "object" THEN c.video
    ELSE IF truthy(c.video) /\ c.resolution # ""
         THEN Obj(VideoConstraints[c.resolution].resolution)
         ELSE c.video

\* the value getNewTrack(kind) passes to getUserMedia under the key kind
getNewTrackRequest(kind, c) ==
    IF kind = "video" THEN computeVideoConstraints(c) ELSE computeAudioConstraints(c)

(***************************************************************************)
(* publishTrack: the encodings given to setParameters                      *)
(***************************************************************************)
\* an RTCRtpEncodingParameters: each field is optional
EncodingParameters(rid, scale, maxBitrate, maxFramerate) ==
    [rid |-> rid, scaleResolutionDownBy |-> scale,
     maxBitrate |-> maxBitrate, maxFramerate |-> maxFramerate]

\* the three simulcast encodings publishTrack starts from
simulcastDefaults ==
    << EncodingParameters({"f"}, {}, {}, {}),
       EncodingParameters({"h"}, {2}, {150000}, {}),
       EncodingParameters({"q"}, {4}, {100000}, {}) >>

\* the index the switch on encoding.layer selects (0: no case matches)
layerIndex(layer) ==
    CASE layer = "high" -> 1
      [] layer = "medium" -> 2
      [] layer = "low" -> 3
      [] OTHER -> 0

\* mutant of overlayEncoding: a caller's encoding replaces both fields
overlayEncoding_replace(encs, encoding) ==
    LET i == layerIndex(encoding.layer)
    IN  IF i = 0 THEN encs
        ELSE [encs EXCEPT ![i].maxBitrate = encoding.maxBitrate,
                          ![i].maxFramerate = encoding.maxFramerate]

\* one round of constraints.encodings.forEach
overlayEncoding(encs, encoding) ==
    LET i == layerIndex(encoding.layer)
    IN  IF i = 0 THEN encs
        ELSE [encs EXCEPT
                ![i].maxBitrate =
                    IF truthyNumber(encoding.maxBitrate) THEN encoding.maxBitrate ELSE @,
                ![i].maxFramerate =
                    IF truthyNumber(encoding.maxFramerate) THEN encoding.maxFramerate ELSE @]

RECURSIVE overlayEncodings(_, _)
overlayEncodings(encs, list) ==
    IF list = <<>> THEN encs
    ELSE overlayEncodings(overlayEncoding(encs, Head(list)), Tail(list))

\* the encodings publishTrack gives to setParameters for a video track
publishEncodings(c) ==
    IF c.simulcast
    THEN overlayEncodings(simulcastDefaults, c.encodings)
    ELSE << EncodingParameters({}, {}, VideoConstraints[c.resolution].encodings.maxBitrate,
                               VideoConstraints[c.resolution].encodings.maxFramerate) >>

(***************************************************************************)
(* makeLocal: the operations on the tracks, the stream and the sender      *)
(*                                                                         *)
(* The code mutates several objects in sequence; st is the record of them: *)
(* [local, slot, tracks, encodings, tasks].                                *)
(***************************************************************************)
\* pc.getTransceivers(): the two transceivers of the sender, by kind
getTransceivers == <<"audio", "video">>

\* a captured track as getUserMedia returns it
NewTrack(kind) == [kind |-> kind, enabled |-> TRUE, readyState |-> "live"]

\* the encodings of a transceiver before any setParameters
NoEncodings == << EncodingParameters({}, {}, {}, {}) >>

\* MediaStreamTrack.stop(), and track?.stop() for a null track
stop(st, track) ==
    IF track = 0 THEN st ELSE [st EXCEPT !.tracks[track].readyState = "ended"]

\* sender.replaceTrack(track) on the transceiver tr; the transport refuses a
\* track of the other kind (the promise is rejected, the sender keeps its track)
replaceTrack(st, tr, track) ==
    IF st.tracks[track].kind = tr THEN [st EXCEPT !.slot[tr] = track] ELSE st

\* a publishTrack call suspended at `await setParameters` or `await replaceTrack`
Task(track, tr, at) == [track |-> track, transceiver |-> tr, at |-> at]

\* publishTrack(track, transceiver) up to its first await
publishTrack(st, c, track, tr) ==
    IF st.tracks[track].kind = "video"
    THEN [st EXCEPT !.encodings[tr] = publishEncodings(c),
                    !.tasks = @ (+) SetToBag({Task(track, tr, "setParameters")})]
    ELSE IF st.tracks[track].kind = tr
         THEN [replaceTrack(st, tr, track) EXCEPT
                  !.tasks = @ (+) SetToBag({Task(track, tr, "replaceTrack")})]
         ELSE st

\* mutant of updateTrack: the previous track is removed and stopped, and the
\* new one is only added to the stream
updateTrack_detached(st, c, next, prev, tr) ==
    LET added == [st EXCEPT !.local = @ \cup {next}]
    IN  IF prev # 0 /\ st.tracks[prev].enabled
        THEN stop([added EXCEPT !.local = @ \ {prev}], prev)
        ELSE added

\* updateTrack(next, prev, transceiver); tr = "none" when no transceiver is given
updateTrack(st, c, next, prev, tr) ==
    LET added == [st EXCEPT !.local = @ \cup {next}]
    IN  IF prev # 0 /\ st.tracks[prev].enabled
        THEN LET removed == stop([added EXCEPT !.local = @ \ {prev}], prev)
             IN  IF tr # "none"
                 THEN replaceTrack(stop(removed, removed.slot[tr]), tr, next)
                 ELSE removed
        ELSE IF tr # "none" THEN publishTrack(added, c, next, tr) ELSE added

\* pc.getTransceivers().forEach(...) of switchDevice: the `return` leaves the
\* callback only, so every transceiver is visited
RECURSIVE forEachTransceiver(_, _, _, _, _)
forEachTransceiver(st, c, next, prev, ts) ==
    IF ts = <<>> THEN st
    ELSE forEachTransceiver(
             IF st.slot[Head(ts)] = prev
             THEN updateTrack(st, c, next, prev, Head(ts)) ELSE st,
             c, next, prev, Tail(ts))

\* switchDevice after `await getNewTrack(kind)`
switchDeviceResume(st, c, next, prev) ==
    updateTrack(forEachTransceiver(st, c, next, prev, getTransceivers),
                c, next, prev, "none")

\* mutant of unmuteResume: the fresh track never reaches the transceiver
unmuteResume_local(st, c, track, prev, kind) ==
    updateTrack(st, c, track, prev, "none")

\* unmute after `await getNewTrack(kind)`
unmuteResume(st, c, track, prev, kind) ==
    IF st.slot[kind] = prev
    THEN updateTrack(st, c, track, prev, kind)
    ELSE updateTrack(st, c, track, prev, "none")

\* local.getTracks().forEach(publishTrack), the tracks taken in the order given
RECURSIVE publishEach(_, _, _)
publishEach(st, c, order) ==
    IF order = <<>> THEN st
    ELSE publishEach(publishTrack(st, c, Head(order), st.tracks[Head(order)].kind),
                     c, Tail(order))

\* the tracks of S in the order of their capture
RECURSIVE inOrder(_)
inOrder(S) ==
    IF S = {} THEN <<>>
    ELSE LET first == CHOOSE t \in S : \A u \in S : t <= u
         IN  <<first>> \o inOrder(S \ {first})

\* getTracks() lists the tracks of the stream in an order the platform chooses.
\* The publishTrack calls of publish() differ by that order only in the audio
\* track that is given to replaceTrack last: one order is taken for each.
Orders(st) ==
    LET audio == {t \in st.local : st.tracks[t].kind = "audio"}
    IN  IF audio = {} THEN {inOrder(st.local)}
        ELSE {inOrder(st.local \ {a}) \o <<a>> : a \in audio}

\* pc.removeTrack(sender): nothing for a sender without track; else the track
\* is detached and a sending transceiver stops sending
pcRemoveTrack(sl, dir, tr) ==
    IF sl[tr] = 0 THEN <<sl, dir>>
    ELSE << [sl EXCEPT ![tr] = 0],
            [dir EXCEPT ![tr] = IF @ = "sendonly" THEN "inactive" ELSE @] >>

(***************************************************************************)
(* History: the step taken last                                            *)
(***************************************************************************)
Call(op, kind, prev, req, deviceId) ==
    [op |-> op, kind |-> kind, prev |-> prev, req |-> req, deviceId |-> deviceId]

NoCall == Call("", "", 0, Undefined, "")

\* op: the operation; phase: "call" (it ran up to its await or to its end),
\* "done" / "fail" (it resumed after getUserMedia resolved / rejected); call
\* and next: the suspended call and the track it got; err: the error thrown
\* or reported; pre: constraints[kind] before a switchDevice or unmute call
Step(op, phase, kind, call, next, err, pre) ==
    [op |-> op, phase |-> phase, kind |-> kind, call |-> call, next |-> next,
     err |-> err, pre |-> pre]

State ==
    [local |-> local, slot |-> slot, tracks |-> tracks, encodings |-> encodings,
     tasks |-> tasks]

SetState(st) ==
    /\ local' = st.local
    /\ slot' = st.slot
    /\ tracks' = st.tracks
    /\ encodings' = st.encodings
    /\ tasks' = st.tasks

\* overlapped: two switchDevice / unmute calls of the kind have been awaiting
\* getUserMedia at the same time; muted: the call made last on the kind is a
\* mute made while a switchDevice / unmute of the kind awaited getUserMedia
NoRace == [k \in Kind |-> [overlapped |-> FALSE, muted |-> FALSE]]

InFlight(bag, kind) == {call \in BagToSet(bag) : call.kind = kind}

called(r, bag, kind) ==
    [r EXCEPT ![kind] = [overlapped |-> @.overlapped \/ InFlight(bag, kind) # {},
                         muted |-> FALSE]]

muted(r, bag, kind) == [r EXCEPT ![kind].muted = InFlight(bag, kind) # {}]

NoLocalStream ==
    /\ constraints = [audio |-> Undefined, video |-> Undefined, resolution |-> "",
                      simulcast |-> FALSE, encodings |-> <<>>]
    /\ tracks = <<>>
    /\ local = {}
    /\ slot = [k \in Kind |-> 0]
    /\ encodings = [k \in Kind |-> NoEncodings]
    /\ direction = [k \in Kind |-> "inactive"]
    /\ currentDirection = [k \in Kind |-> "inactive"]
    /\ calls = EmptyBag
    /\ tasks = EmptyBag
    /\ ncalls = 0
    /\ last = Step("", "", "", NoCall, 0, "", Undefined)
    /\ race = NoRace

NoRemoteStream ==
    /\ remote = makeRemote("s1")
    /\ api = <<>>
    /\ rlog = <<>>

(***************************************************************************)
(* The session state machine of the coordinating server                    *)
(*                                                                         *)
(* The repository holds the messages of the signalling protocol only; the  *)
(* handlers are modelled from section 4.2 of the specification. ss is the  *)
(* record [session, outbox, elog] the handlers work on.                    *)
(***************************************************************************)
Peers == {"p1", "p2", "p3"}

Rooms == {"r1", "r2"}

SessionStates == {"Unjoined", "Joined", "Left"}

\* the payloads of SignalReply
JoinReply(success, reason) ==
    [payload |-> "joinReply", success |-> success, reason |-> reason]

LeaveReply(reason) == [payload |-> "leaveReply", reason |-> reason]

PeerEvent(state, peer) == [payload |-> "peerEvent", state |-> state, peer |-> peer]

\* the reply to a request is sent on the requesting peer's channel
reply(ss, p, envelope) == [ss EXCEPT !.outbox[p] = Append(@, envelope)]

\* the peers a transition of p in room is broadcast to
Audience(ss, p, room) ==
    {q \in Peers \ {p} : ss.session[q] = [state |-> "Joined", room |-> room]}

\* mutant of broadcast: the event goes to every peer of the server
broadcast_everyone(ss, p, room, state) ==
    [ss EXCEPT !.outbox = [q \in Peers |-> Append(@[q], PeerEvent(state, p))],
               !.elog = Append(@, PeerEvent(state, p))]

\* a Peer event about p to every other Joined peer of the room
broadcast(ss, p, room, state) ==
    [ss EXCEPT !.outbox = [q \in Peers |->
                              IF q \in Audience(ss, p, room)
                              THEN Append(@[q], PeerEvent(state, p)) ELSE @[q]],
               !.elog = Append(@, PeerEvent(state, p))]

\* mutant of handleJoin: a Joined peer that joins again is attached again
handleJoin_again(ss, p, room, allow) ==
    IF ss.session[p].state = "Left"
    THEN reply(ss, p, JoinReply(FALSE, "left"))
    ELSE IF ~allow
    THEN reply(ss, p, JoinReply(FALSE, "denied"))
    ELSE broadcast(reply([ss EXCEPT !.session[p] = [state |-> "Joined", room |-> room]],
                         p, JoinReply(TRUE, "")),
                   p, room, "added")

\* handleJoin: the token was allowed or denied by the authorization collaborator
handleJoin(ss, p, room, allow) ==
    IF ss.session[p].state = "Joined"
    THEN reply(ss, p, JoinReply(FALSE, "already joined"))
    ELSE IF ss.session[p].state = "Left"
    THEN reply(ss, p, JoinReply(FALSE, "left"))
    ELSE IF ~allow
    THEN reply(ss, p, JoinReply(FALSE, "denied"))
    ELSE broadcast(reply([ss EXCEPT !.session[p] = [state |-> "Joined", room |-> room]],
                         p, JoinReply(TRUE, "")),
                   p, room, "added")

\* mutant of handleLeave: a Leave from a peer that is not Joined is dropped
handleLeave_dropped(ss, p) ==
    IF ss.session[p].state # "Joined"
    THEN ss
    ELSE broadcast(reply([ss EXCEPT !.session[p] = [state |-> "Left", room |-> ""]],
                         p, LeaveReply("")),
                   p, ss.session[p].room, "removed")

\* handleLeave
handleLeave(ss, p) ==
    IF ss.session[p].state # "Joined"
    THEN reply(ss, p, LeaveReply("not joined"))
    ELSE broadcast(reply([ss EXCEPT !.session[p] = [state |-> "Left", room |-> ""]],
                         p, LeaveReply("")),
                   p, ss.session[p].room, "removed")

Request(peer, payload, room, allow) ==
    [peer |-> peer, payload |-> payload, room |-> room, allow |-> allow]

NoSession ==
    /\ session = [p \in Peers |-> [state |-> "Unjoined", room |-> ""]]
    /\ outbox = [p \in Peers |-> <<>>]
    /\ elog = <<>>
    /\ lastReq = Request("", "", "", FALSE)

(***************************************************************************)
(* The receiver of the selections                                          *)
(*                                                                         *)
(* The far end of the data channel is not part of the repository: it is    *)
(* modelled as the specification describes it, a receiver that reads each  *)
(* message and overwrites what it has stored (last write wins).            *)
(***************************************************************************)
\* the members of a JSON object, read from the tokens after the opening
\* brace: a key between quotes, a colon, and a string between quotes or the
\* word true or false
RECURSIVE JSONmembers(_, _)
JSONmembers(tokens, object) ==
    IF tokens = <<>> \/ Head(tokens) = "}" THEN object
    ELSE IF Head(tokens) = "," THEN JSONmembers(Tail(tokens), object)
    ELSE IF tokens[5] = "\""
    THEN JSONmembers(SubSeq(tokens, 8, Len(tokens)), (tokens[2] :> tokens[6]) @@ object)
    ELSE JSONmembers(SubSeq(tokens, 6, Len(tokens)),
                     (tokens[2] :> (tokens[5] = "true")) @@ object)

\* JSON.parse of the text of an object
JSONparse(text) == JSONmembers(Tail(text), <<>>)

\* nothing received yet
NoSelection == <<>>

\* the receiver stores the selection it reads
receive(stored, text) == JSONparse(text)

NoChannel ==
    /\ arrivals = <<>>
    /\ receiver = NoSelection

(***************************************************************************)
(* The RemoteStream: actions                                               *)
(***************************************************************************)
RemotePreferLayer(layer) ==
    /\ Len(rlog) < MaxCalls
    /\ remote' = preferLayer(remote, layer)
    /\ api' = Append(api, select(remote'))
    /\ rlog' = Append(rlog, [op |-> "preferLayer", arg |-> layer])
    /\ UNCHANGED notRemote

RemoteMute(kind) ==
    /\ Len(rlog) < MaxCalls
    /\ remote' = remote_mute(remote, kind)
    /\ api' = Append(api, select(remote'))
    /\ rlog' = Append(rlog, [op |-> "mute", arg |-> kind])
    /\ UNCHANGED notRemote

RemoteUnmute(kind) ==
    /\ Len(rlog) < MaxCalls
    /\ remote' = remote_unmute(remote, kind)
    /\ api' = Append(api, select(remote'))
    /\ rlog' = Append(rlog, [op |-> "unmute", arg |-> kind])
    /\ UNCHANGED notRemote

InitRemote ==
    /\ remote \in {makeRemote(id) : id \in StreamIds}
    /\ api = <<>>
    /\ rlog = <<>>
    /\ NoLocalStream
    /\ NoSession
    /\ NoChannel

NextRemote ==
    \/ \E layer \in Layer : RemotePreferLayer(layer)
    \/ \E kind \in Kind : RemoteMute(kind)
    \/ \E kind \in Kind : RemoteUnmute(kind)

SpecRemote == InitRemote /\ [][NextRemote]_vars

(***************************************************************************)
(* The LocalStream: actions                                                *)
(***************************************************************************)
DeviceIds == {"devB"}

\* the constraints switchDevice(kind, deviceId) assigns
switchDeviceConstraints(c, kind, deviceId) ==
    [c EXCEPT ![kind] = IF @.type = "object"
                        THEN Obj(spreadDeviceId(@.obj, deviceId))
                        ELSE Obj({<<"deviceId", deviceId>>})]

\* local.switchDevice(kind, deviceId) up to `await getNewTrack(kind)`
LocalSwitchDevice(kind, deviceId) ==
    LET c == switchDeviceConstraints(constraints, kind, deviceId)
        call == Call("switchDevice", kind, slot[kind], getNewTrackRequest(kind, c), deviceId)
    IN  /\ BagCardinality(calls) < MaxInFlight
        /\ constraints' = c
        /\ calls' = calls (+) SetToBag({call})
        /\ last' = Step("switchDevice", "call", kind, call, 0, "", constraints[kind])
        /\ UNCHANGED <<tracks, local, slot, encodings, direction, currentDirection, tasks>>
        /\ ncalls < MaxLocalCalls
        /\ ncalls' = ncalls + 1
        /\ race' = called(race, calls, kind)
        /\ UNCHANGED notLocal

\* local.unmute(kind) up to `await getNewTrack(kind)`
LocalUnmute(kind) ==
    LET call == Call("unmute", kind, slot[kind], getNewTrackRequest(kind, constraints), "")
    IN  /\ BagCardinality(calls) < MaxInFlight
        /\ calls' = calls (+) SetToBag({call})
        /\ last' = Step("unmute", "call", kind, call, 0, "", constraints[kind])
        /\ UNCHANGED <<constraints, tracks, local, slot, encodings, direction,
                       currentDirection, tasks>>
        /\ ncalls < MaxLocalCalls
        /\ ncalls' = ncalls + 1
        /\ race' = called(race, calls, kind)
        /\ UNCHANGED notLocal

\* getUserMedia resolves for a suspended switchDevice, which runs to its end
LocalSwitchDeviceResume(call) ==
    LET next == Len(tracks) + 1
        st == switchDeviceResume([State EXCEPT !.tracks = Append(@, NewTrack(call.kind))],
                                 constraints, next, call.prev)
    IN  /\ BagIn(call, calls)
        /\ call.op = "switchDevice"
        /\ truthy(call.req)
        /\ Len(tracks) < MaxTracks
        /\ BagCardinality(st.tasks) <= MaxTasks
        /\ SetState(st)
        /\ calls' = calls (-) SetToBag({call})
        /\ last' = Step("switchDevice", "done", call.kind, call, next, "", Undefined)
        /\ UNCHANGED <<constraints, direction, currentDirection>>
        /\ UNCHANGED <<ncalls, race, notLocal>>

\* getUserMedia resolves for a suspended unmute, which runs to its end
LocalUnmuteResume(call) ==
    LET next == Len(tracks) + 1
        st == unmuteResume([State EXCEPT !.tracks = Append(@, NewTrack(call.kind))],
                           constraints, next, call.prev, call.kind)
    IN  /\ BagIn(call, calls)
        /\ call.op = "unmute"
        /\ truthy(call.req)
        /\ Len(tracks) < MaxTracks
        /\ BagCardinality(st.tasks) <= MaxTasks
        /\ SetState(st)
        /\ calls' = calls (-) SetToBag({call})
        /\ last' = Step("unmute", "done", call.kind, call, next, "", Undefined)
        /\ UNCHANGED <<constraints, direction, currentDirection>>
        /\ UNCHANGED <<ncalls, race, notLocal>>

\* getUserMedia rejects (always, when asked for no track): the await throws
\* and the suspended switchDevice or unmute ends with that error
LocalAcquireFailed(call) ==
    /\ BagIn(call, calls)
    /\ calls' = calls (-) SetToBag({call})
    /\ last' = Step(call.op, "fail", call.kind, call, 0, "getUserMedia", Undefined)
    /\ UNCHANGED <<constraints, tracks, local, slot, encodings, direction,
                   currentDirection, tasks>>
    /\ UNCHANGED <<ncalls, race, notLocal>>

\* mutant of LocalMute: the muted track is also taken off the sender
LocalMute_detach(kind) ==
    /\ SetState([stop(State, slot[kind]) EXCEPT !.slot[kind] = 0])
    /\ last' = Step("mute", "call", kind, NoCall, 0, "", Undefined)
    /\ UNCHANGED <<constraints, direction, currentDirection, calls>>
    /\ ncalls < MaxLocalCalls
    /\ ncalls' = ncalls + 1
    /\ race' = muted(race, calls, kind)
    /\ UNCHANGED notLocal

\* local.mute(kind)
LocalMute(kind) ==
    /\ SetState(stop(State, slot[kind]))
    /\ last' = Step("mute", "call", kind, NoCall, 0, "", Undefined)
    /\ UNCHANGED <<constraints, direction, currentDirection, calls>>
    /\ ncalls < MaxLocalCalls
    /\ ncalls' = ncalls + 1
    /\ race' = muted(race, calls, kind)
    /\ UNCHANGED notLocal

\* local.publish(): every publishTrack call runs up to its first await
LocalPublish ==
    \E order \in Orders(State) :
        LET st == publishEach(State, constraints, order)
        IN  /\ BagCardinality(st.tasks) <= MaxTasks
            /\ SetState(st)
            /\ last' = Step("publish", "call", "", NoCall, 0, "", Undefined)
            /\ UNCHANGED <<constraints, direction, currentDirection, calls>>
            /\ ncalls < MaxLocalCalls
            /\ ncalls' = ncalls + 1
            /\ UNCHANGED <<race, notLocal>>

\* local.unpublish(): MediaStream.removeTrack(null) throws a TypeError, which
\* ends the call at that line
LocalUnpublish ==
    LET a == slot["audio"]
        v == slot["video"]
        audioRemoved == pcRemoveTrack(slot, direction, "audio")
        bothRemoved == pcRemoveTrack(audioRemoved[1], audioRemoved[2], "video")
    IN  /\ IF a = 0
           THEN /\ last' = Step("unpublish", "call", "", NoCall, 0, "TypeError", Undefined)
                /\ UNCHANGED <<local, slot, direction>>
           ELSE IF v = 0
           THEN /\ local' = local \ {a}
                /\ last' = Step("unpublish", "call", "", NoCall, 0, "TypeError", Undefined)
                /\ UNCHANGED <<slot, direction>>
           ELSE /\ local' = local \ {a, v}
                /\ slot' = bothRemoved[1]
                /\ direction' = bothRemoved[2]
                /\ last' = Step("unpublish", "call", "", NoCall, 0, "", Undefined)
        /\ UNCHANGED <<constraints, tracks, encodings, currentDirection, calls, tasks>>
        /\ ncalls < MaxLocalCalls
        /\ ncalls' = ncalls + 1
        /\ UNCHANGED <<race, notLocal>>

\* publishTrack resumes after `await setParameters` and calls replaceTrack; a
\* refused replaceTrack makes the await throw, which ends publishTrack
LocalAfterSetParameters(task) ==
    /\ BagIn(task, tasks)
    /\ task.at = "setParameters"
    /\ slot' = replaceTrack(State, task.transceiver, task.track).slot
    /\ tasks' = IF tracks[task.track].kind = task.transceiver
                THEN (tasks (-) SetToBag({task}))
                     (+) SetToBag({Task(task.track, task.transceiver, "replaceTrack")})
                ELSE tasks (-) SetToBag({task})
    /\ last' = Step("publishTrack", "setParameters", task.transceiver, NoCall,
                    task.track, "", Undefined)
    /\ UNCHANGED <<constraints, tracks, local, encodings, direction, currentDirection, calls>>
    /\ UNCHANGED <<ncalls, race, notLocal>>

\* publishTrack resumes after `await replaceTrack` and runs to its end
LocalAfterReplaceTrack(task) ==
    /\ BagIn(task, tasks)
    /\ task.at = "replaceTrack"
    /\ direction' = IF currentDirection[task.transceiver] = "inactive"
                    THEN [direction EXCEPT ![task.transceiver] = "sendonly"]
                    ELSE direction
    /\ tasks' = tasks (-) SetToBag({task})
    /\ last' = Step("publishTrack", "replaceTrack", task.transceiver, NoCall,
                    task.track, "", Undefined)
    /\ UNCHANGED <<constraints, tracks, local, slot, encodings, currentDirection, calls>>
    /\ UNCHANGED <<ncalls, race, notLocal>>

\* the stream given to makeLocal holds one captured track for each kind the
\* constraints ask for; the application may have disabled a track
InitialTracks(c, en) ==
    (IF truthy(c.audio)
     THEN <<[kind |-> "audio", enabled |-> en["audio"], readyState |-> "live"]>>
     ELSE <<>>)
    \o (IF truthy(c.video)
        THEN <<[kind |-> "video", enabled |-> en["video"], readyState |-> "live"]>>
        ELSE <<>>)

InitLocalWith(C, E) ==
    /\ NoRemoteStream
    /\ NoSession
    /\ NoChannel
    /\ constraints \in C
    /\ \E en \in E : tracks = InitialTracks(constraints, en)
    /\ local = 1..Len(tracks)
    /\ slot = [k \in Kind |-> 0]
    /\ encodings = [k \in Kind |-> NoEncodings]
    /\ direction = [k \in Kind |-> "inactive"]
    /\ currentDirection = [k \in Kind |-> "inactive"]
    /\ calls = EmptyBag
    /\ tasks = EmptyBag
    /\ ncalls = 0
    /\ last = Step("makeLocal", "", "", NoCall, 0, "", Undefined)
    /\ race = NoRace

\* an Encoding of Constraints.encodings
Encoding(layer, maxBitrate, maxFramerate) ==
    [layer |-> layer, maxBitrate |-> maxBitrate, maxFramerate |-> maxFramerate]

\* Spec: a stream of a microphone and a camera, published with simulcast; the
\* application may have disabled the camera track
LocalConstraints ==
    [audio : {Bool(TRUE)},
     video : {Bool(TRUE)},
     resolution : {"hd"},
     simulcast : {TRUE},
     encodings : {<<Encoding("medium", {300000}, {})>>}]

Init ==
    InitLocalWith(LocalConstraints,
                  {[audio |-> TRUE, video |-> TRUE], [audio |-> TRUE, video |-> FALSE]})

Next ==
    \/ \E kind \in Kind, deviceId \in DeviceIds : LocalSwitchDevice(kind, deviceId)
    \/ \E kind \in Kind : LocalUnmute(kind)
    \/ \E call \in BagToSet(calls) : LocalSwitchDeviceResume(call)
    \/ \E call \in BagToSet(calls) : LocalUnmuteResume(call)
    \/ \E call \in BagToSet(calls) : LocalAcquireFailed(call)
    \/ \E kind \in Kind : LocalMute(kind)
    \/ LocalPublish
    \/ LocalUnpublish
    \/ \E task \in BagToSet(tasks) : LocalAfterSetParameters(task)
    \/ \E task \in BagToSet(tasks) : LocalAfterReplaceTrack(task)

Spec == Init /\ [][Next]_vars

\* SpecSwap: the calls that swap or stop the track of a kind (switchDevice,
\* unmute, mute), without publish() and unpublish(), on a stream whose one
\* publish() call has run to its end
InitSwap ==
    /\ NoRemoteStream
    /\ NoSession
    /\ NoChannel
    /\ constraints \in LocalConstraints
    /\ \E en \in {[audio |-> TRUE, video |-> TRUE], [audio |-> TRUE, video |-> FALSE]} :
           tracks = InitialTracks(constraints, en)
    /\ local = {1, 2}
    /\ slot = [audio |-> 1, video |-> 2]
    /\ encodings = [audio |-> NoEncodings, video |-> publishEncodings(constraints)]
    /\ direction = [k \in Kind |-> "sendonly"]
    /\ currentDirection = [k \in Kind |-> "inactive"]
    /\ calls = EmptyBag
    /\ tasks = EmptyBag
    /\ ncalls = 1
    /\ last = Step("publishTrack", "replaceTrack", "video", NoCall, 2, "", Undefined)
    /\ race = NoRace

NextSwap ==
    \/ \E kind \in Kind, deviceId \in DeviceIds : LocalSwitchDevice(kind, deviceId)
    \/ \E kind \in Kind : LocalUnmute(kind)
    \/ \E call \in BagToSet(calls) : LocalSwitchDeviceResume(call)
    \/ \E call \in BagToSet(calls) : LocalUnmuteResume(call)
    \/ \E call \in BagToSet(calls) : LocalAcquireFailed(call)
    \/ \E kind \in Kind : LocalMute(kind)
    \/ \E task \in BagToSet(tasks) : LocalAfterSetParameters(task)
    \/ \E task \in BagToSet(tasks) : LocalAfterReplaceTrack(task)

SpecSwap == InitSwap /\ [][NextSwap]_vars

\* SpecForms: the same program, for every form of constraints.audio and
\* constraints.video (absent, true, an object with another field)
FormConstraints ==
    [audio : {Undefined, Bool(TRUE), Obj({<<"echoCancellation", "true">>})},
     video : {Undefined, Bool(TRUE), Obj({<<"facingMode", "user">>})},
     resolution : {"hd"},
     simulcast : {FALSE},
     encodings : {<<>>}]

InitForms == InitLocalWith(FormConstraints, {[audio |-> TRUE, video |-> TRUE]})

SpecForms == InitForms /\ [][Next]_vars

\* SpecEncodings: publish() for every list of at most two encodings given by
\* the caller (with simulcast), and for every resolution (without)
Encodings ==
    {Encoding(layer, maxBitrate, maxFramerate) :
        layer \in Layer, maxBitrate \in {{}, {0}, {300000}}, maxFramerate \in {{}, {30}}}

EncodingLists ==
    {<<>>} \cup {<<e>> : e \in Encodings} \cup {<<e, f>> : e \in Encodings, f \in Encodings}

EncodingConstraints ==
    [audio : {Bool(TRUE)}, video : {Bool(TRUE)}, resolution : {"hd"},
     simulcast : {TRUE}, encodings : EncodingLists]
    \cup
    [audio : {Bool(TRUE)}, video : {Bool(TRUE)}, resolution : DOMAIN VideoConstraints,
     simulcast : {FALSE}, encodings : {<<>>, <<Encoding("medium", {300000}, {})>>}]

InitEncodings == InitLocalWith(EncodingConstraints, {[audio |-> TRUE, video |-> TRUE]})

NextEncodings ==
    \/ LocalPublish
    \/ \E task \in BagToSet(tasks) : LocalAfterSetParameters(task)
    \/ \E task \in BagToSet(tasks) : LocalAfterReplaceTrack(task)

SpecEncodings == InitEncodings /\ [][NextEncodings]_vars

(***************************************************************************)
(* The session state machine: actions                                      *)
(*                                                                         *)
(* The transitions of a room are serialized, so a handler is one step.     *)
(***************************************************************************)
SessionState == [session |-> session, outbox |-> outbox, elog |-> elog]

SetSessionState(ss) ==
    /\ session' = ss.session
    /\ outbox' = ss.outbox
    /\ elog' = ss.elog

\* the requests handled so far: each one was answered on its peer's channel
Handled ==
    LET Replies(p) == {i \in 1..Len(outbox[p]) : outbox[p][i].payload # "peerEvent"}
        RECURSIVE Sum(_)
        Sum(S) == IF S = {} THEN 0
                  ELSE LET q == CHOOSE q \in S : TRUE
                       IN  Cardinality(Replies(q)) + Sum(S \ {q})
    IN  Sum(Peers)

SessionJoin(p, room, allow) ==
    /\ Handled < MaxRequests
    /\ SetSessionState(handleJoin(SessionState, p, room, allow))
    /\ lastReq' = Request(p, "join", room, allow)
    /\ UNCHANGED <<remoteVars, localVars, channelVars>>

SessionLeave(p) ==
    /\ Handled < MaxRequests
    /\ SetSessionState(handleLeave(SessionState, p))
    /\ lastReq' = Request(p, "leave", "", FALSE)
    /\ UNCHANGED <<remoteVars, localVars, channelVars>>

InitSession ==
    /\ NoSession
    /\ NoChannel
    /\ NoRemoteStream
    /\ NoLocalStream

NextSession ==
    \/ \E p \in Peers, room \in Rooms, allow \in BOOLEAN : SessionJoin(p, room, allow)
    \/ \E p \in Peers : SessionLeave(p)

SpecSession == InitSession /\ [][NextSession]_vars

(***************************************************************************)
(* The data channel: selections sent by the RemoteStream are delivered to  *)
(* the receiver, each once, in any order                                   *)
(***************************************************************************)
Delivered == {arrivals[i] : i \in 1..Len(arrivals)}

ChannelDeliver(i) ==
    /\ i \in (1..Len(api)) \ Delivered
    /\ arrivals' = Append(arrivals, i)
    /\ receiver' = receive(receiver, api[i])
    /\ UNCHANGED <<remoteVars, localVars, sessionVars>>

InitChannel ==
    /\ NoRemoteStream
    /\ NoLocalStream
    /\ NoSession
    /\ NoChannel

NextChannel ==
    \/ Len(api) < MaxSent /\ NextRemote
    \/ \E i \in 1..Len(api) : ChannelDeliver(i)

SpecChannel == InitChannel /\ [][NextChannel]_vars

(***************************************************************************)
(* Claims about the data channel (checked under SpecChannel)               *)
(***************************************************************************)
\* every selection sent has been delivered
AllDelivered == Len(api) > 0 /\ Delivered = 1..Len(api)

\* the receiver has stored the RemoteStream's present video and audio
ReceiverAgrees ==
    /\ DOMAIN receiver = {"streamId", "video", "audio"}
    /\ receiver["streamId"] = remote.id
    /\ receiver["video"] = remote.video
    /\ receiver["audio"] = remote.audio

\* C15 (as claimed): once every selection sent has been delivered, in any
\* order, the receiver has stored the RemoteStream's present video and audio.
C15_AnyOrderAgrees == AllDelivered => ReceiverAgrees

\* C15 (amended): once every selection sent has been delivered, the receiver
\* has stored the selection delivered last; it has stored the RemoteStream's
\* present video and audio if the selection sent last was delivered last.
C15_LastDeliveredWins ==
    AllDelivered =>
        /\ receiver = JSONparse(api[arrivals[Len(arrivals)]])
        /\ arrivals[Len(arrivals)] = Len(api) => ReceiverAgrees

\* three selections were delivered out of order, the one sent last at the end
C15_Witness ==
    /\ arrivals = <<2, 1, 3>>
    /\ rlog = << [op |-> "preferLayer", arg |-> "low"], [op |-> "mute", arg |-> "audio"],
                 [op |-> "preferLayer", arg |-> "medium"] >>
    /\ receiver = [streamId |-> "s1", video |-> "medium", audio |-> FALSE]

(***************************************************************************)
(* Claims about the session state machine (checked under SpecSession)      *)
(***************************************************************************)
\* a request was handled in this step
Handles(payload) ==
    /\ lastReq' # lastReq \/ outbox' # outbox \/ session' # session
    /\ lastReq'.payload = payload

\* the Peer events among the envelopes sent to q
PeerEvents(box, q) == {i \in 1..Len(box[q]) : box[q][i].payload = "peerEvent"}

\* C12: a Join from a peer that is Joined changes no peer's state or room, is
\* answered by JoinReply{success: false, reason: "already joined"}, and sends
\* nothing to any other peer.
C12_JoinWhileJoined ==
    [][(Handles("join") /\ session[lastReq'.peer].state = "Joined") =>
          /\ session' = session
          /\ outbox' = [outbox EXCEPT ![lastReq'.peer] =
                           Append(@, JoinReply(FALSE, "already joined"))]
          /\ elog' = elog]_vars

\* a Joined peer asked to join the other room, where a peer is Joined, and
\* was refused
C12_Witness ==
    LET p == lastReq.peer
    IN  /\ lastReq.payload = "join"
        /\ lastReq.allow
        /\ session[p].state = "Joined"
        /\ session[p].room # lastReq.room
        /\ \E q \in Peers \ {p} : session[q] = [state |-> "Joined", room |-> lastReq.room]
        /\ \E q \in Peers \ {p} : session[q] = [state |-> "Joined", room |-> session[p].room]
        /\ outbox[p][Len(outbox[p])] = JoinReply(FALSE, "already joined")

\* the place of a transition in the order of occurrence
Occurrence(log, event) == CHOOSE i \in 1..Len(log) : log[i] = event

\* q was told of the transitions of each peer in the order they occurred
InOccurrenceOrder(box, log, q) ==
    \A i, j \in PeerEvents(box, q) :
        (i < j /\ box[q][i].peer = box[q][j].peer) =>
            /\ \E k \in 1..Len(log) : log[k] = box[q][i]
            /\ \E k \in 1..Len(log) : log[k] = box[q][j]
            /\ Occurrence(log, box[q][i]) < Occurrence(log, box[q][j])

\* C13: a successful Join (Leave) of p sends exactly one peer-added
\* (peer-removed) event to each other peer that is Joined in p's room at that
\* moment, and no event to p or to any other peer; every peer is told of the
\* transitions of a given peer in the order they occurred.
C13_OneEventToEachJoinedPeer ==
    [][/\ \A q \in Peers : InOccurrenceOrder(outbox', elog', q)
       /\ (Handles("join") \/ Handles("leave")) =>
          LET p == lastReq'.peer
              joined == session[p].state # "Joined" /\ session'[p].state = "Joined"
              left == session[p].state = "Joined" /\ session'[p].state = "Left"
              room == IF joined THEN session'[p].room ELSE session[p].room
              event == PeerEvent(IF joined THEN "added" ELSE "removed", p)
          IN  (joined \/ left) =>
                /\ \A q \in Peers \ {p} :
                      outbox'[q] =
                         IF session[q] = [state |-> "Joined", room |-> room]
                         THEN Append(outbox[q], event) ELSE outbox[q]
                /\ PeerEvents(outbox', p) = PeerEvents(outbox, p)]_vars

\* a peer has joined and left a room: the peer that stayed there was told of
\* both, in that order, and the peer of the other room of neither
C13_Witness ==
    \E p, q, o \in Peers :
        /\ session[p].state = "Left"
        /\ session[q] = [state |-> "Joined", room |-> "r1"]
        /\ session[o] = [state |-> "Joined", room |-> "r2"]
        /\ outbox[q] = <<JoinReply(TRUE, ""), PeerEvent("added", p),
                         PeerEvent("removed", p)>>
        /\ outbox[o] = <<JoinReply(TRUE, "")>>
        /\ PeerEvents(outbox, p) = {}

\* C14: the state of a peer is Unjoined, Joined or Left and changes only from
\* Unjoined to Joined and from Joined to Left; every request gets exactly one
\* reply, a JoinReply for a Join and a LeaveReply for a Leave, and no other
\* peer gets a reply; a Leave from a peer that is Unjoined or Left changes
\* nothing and is answered with a reason that is not empty.
C14_OneStateOneReply ==
    [][(Handles("join") \/ Handles("leave")) =>
          LET p == lastReq'.peer
              got == outbox'[p]
          IN  /\ \A q \in Peers : session'[q].state \in SessionStates
              /\ \A q \in Peers \ {p} : session'[q] = session[q]
              /\ <<session[p].state, session'[p].state>> \in
                    {<<"Unjoined", "Unjoined">>, <<"Unjoined", "Joined">>,
                     <<"Joined", "Joined">>, <<"Joined", "Left">>,
                     <<"Left", "Left">>}
              /\ Len(got) = Len(outbox[p]) + 1
              /\ SubSeq(got, 1, Len(outbox[p])) = outbox[p]
              /\ got[Len(got)].payload =
                    IF lastReq'.payload = "join" THEN "joinReply" ELSE "leaveReply"
              /\ \A q \in Peers \ {p} :
                    \/ outbox'[q] = outbox[q]
                    \/ \E state \in {"added", "removed"} :
                          outbox'[q] = Append(outbox[q], PeerEvent(state, p))
              /\ (lastReq'.payload = "leave" /\ session[p].state # "Joined") =>
                    /\ session' = session
                    /\ got[Len(got)].reason # ""
                    /\ \A q \in Peers \ {p} : outbox'[q] = outbox[q]]_vars

\* a peer has joined, left, and then asked to leave and to join again
C14_Witness ==
    \E p \in Peers :
        /\ session[p].state = "Left"
        /\ outbox[p] = <<JoinReply(TRUE, ""), LeaveReply(""),
                         LeaveReply("not joined"), JoinReply(FALSE, "left")>>

(***************************************************************************)
(* Claims about the LocalStream                                            *)
(***************************************************************************)
\* the caller's encodings that name the layer and give a value for the field
\* (maxBitrate or maxFramerate); Given(n) says which values count as given
Naming(list, layer, field, Given(_)) ==
    {i \in 1..Len(list) : list[i].layer = layer /\ Given(list[i][field])}

\* the value of the field the last such encoding gives, else the default
LastGiven(list, layer, field, Given(_), default) ==
    LET named == Naming(list, layer, field, Given)
    IN  IF named = {} THEN default
        ELSE list[CHOOSE i \in named : \A j \in named : j <= i][field]

\* the simulcast encodings of the video transceiver are the three layers
\* f, h (scale 2), q (scale 4) in that order, each field the last value given
\* for its tier, else the default
ThreeLayers(Given(_)) ==
    LET e == encodings["video"]
        list == constraints.encodings
    IN  /\ Len(e) = 3
        /\ <<e[1].rid, e[2].rid, e[3].rid>> = <<{"f"}, {"h"}, {"q"}>>
        /\ <<e[1].scaleResolutionDownBy, e[2].scaleResolutionDownBy,
              e[3].scaleResolutionDownBy>> = <<{}, {2}, {4}>>
        /\ e[1].maxBitrate = LastGiven(list, "high", "maxBitrate", Given, {})
        /\ e[2].maxBitrate = LastGiven(list, "medium", "maxBitrate", Given, {150000})
        /\ e[3].maxBitrate = LastGiven(list, "low", "maxBitrate", Given, {100000})
        /\ e[1].maxFramerate = LastGiven(list, "high", "maxFramerate", Given, {})
        /\ e[2].maxFramerate = LastGiven(list, "medium", "maxFramerate", Given, {})
        /\ e[3].maxFramerate = LastGiven(list, "low", "maxFramerate", Given, {})

Supplied(n) == n # {}

\* C4 (as claimed): with simulcast, the encodings applied for a published
\* video track are the three layers high, medium, low with their defaults,
\* and every maxBitrate / maxFramerate value the caller supplies replaces
\* that field of its tier.
C4_SuppliedValueReplaces ==
    (constraints.simulcast /\ encodings["video"] # NoEncodings) => ThreeLayers(Supplied)

\* C4 (amended): the same, where a value of 0 counts as not supplied: every
\* non-zero value supplied replaces that field of its tier (the last one, if
\* a tier is named more than once), every other field keeps its default.
C4_NonZeroValueReplaces ==
    (constraints.simulcast /\ encodings["video"] # NoEncodings) => ThreeLayers(truthyNumber)

C4_Witness ==
    /\ constraints.simulcast
    /\ constraints.encodings = <<Encoding("medium", {300000}, {})>>
    /\ encodings["video"] =
           << EncodingParameters({"f"}, {}, {}, {}),
              EncodingParameters({"h"}, {2}, {300000}, {}),
              EncodingParameters({"q"}, {4}, {100000}, {}) >>
    /\ slot["video"] # 0

\* C5: when a switchDevice call that found a track on the slot of its kind
\* completes, the slot holds that track or the track the call acquired.
C5_SlotHoldsOldOrNew ==
    (last.op = "switchDevice" /\ last.phase = "done" /\ last.call.prev # 0)
        => slot[last.kind] \in {last.call.prev, last.next}

\* the publishTrack calls suspended on the transceiver tr
TasksOn(bag, tr) == {t \in BagToSet(bag) : t.transceiver = tr}

C7_FailedAcquisitionChangesNothing ==
    [][(/\ last.phase = "call"
        /\ last.op \in {"switchDevice", "unmute"}
        /\ last'.phase = "fail"
        /\ last'.call = last.call) =>
          /\ last'.err # ""
          /\ constraints' = [constraints EXCEPT ![last.kind] = last.pre]
          /\ slot' = slot
          /\ local' = local
          /\ tracks' = tracks]_vars

\* C8: switchDevice(kind, deviceId) asks getUserMedia for constraints that
\* hold the deviceId and every other field constraints[kind] held before, and
\* a later unmute asks for the deviceId supplied last.
C8_DeviceIdRequested ==
    [][(last'.phase = "call" /\ last'.op \in {"switchDevice", "unmute"}) =>
          LET req == last'.call.req
              old == constraints[last'.kind]
          IN  IF last'.op = "switchDevice"
              THEN /\ req.type = "object"
                   /\ <<"deviceId", last'.call.deviceId>> \in req.obj
                   /\ {p \in old.obj : p[1] # "deviceId"} \subseteq req.obj
              ELSE {p \in old.obj : p[1] = "deviceId"} \subseteq req.obj]_vars

\* C9: an unpublish() that follows an unpublish() which ended without error
\* ends without error too and leaves the stream and both slots as they were.
C9_UnpublishTwice ==
    [][(last.op = "unpublish" /\ last.err = "" /\ last'.op = "unpublish") =>
          /\ last'.err = ""
          /\ local' = local
          /\ slot' = slot
          /\ direction' = direction]_vars

\* C10: mute(kind) stops the track on the slot of kind and changes nothing
\* else: both slots, the encodings, the directions, the stream, the other
\* tracks, the constraints and the suspended calls stay as they are; with no
\* track on the slot nothing changes at all.
C10_MuteOnlyStops ==
    [][(last'.op = "mute" /\ ncalls' # ncalls) =>
          LET track == slot[last'.kind]
          IN  /\ tracks' = IF track = 0 THEN tracks
                           ELSE [tracks EXCEPT ![track].readyState = "ended"]
              /\ slot' = slot
              /\ encodings' = encodings
              /\ direction' = direction
              /\ currentDirection' = currentDirection
              /\ local' = local
              /\ constraints' = constraints
              /\ calls' = calls
              /\ tasks' = tasks]_vars

C10_Witness ==
    /\ last.op = "mute"
    /\ last.kind = "video"
    /\ slot["video"] # 0
    /\ tracks[slot["video"]].readyState = "ended"
    /\ slot["video"] \in local
    /\ slot["audio"] # 0
    /\ tracks[slot["audio"]].readyState = "live"
    /\ direction["video"] = "sendonly"

LocalTracks(kind) == {t \in local : tracks[t].kind = kind}

\* no switchDevice, unmute or publishTrack call of the kind is suspended
Settled(kind) == InFlight(calls, kind) = {} /\ TasksOn(tasks, kind) = {}

\* C16: once switchDevice / unmute calls of a kind that awaited getUserMedia
\* at the same time have all completed, the local stream holds exactly one
\* track of the kind, the one on the slot, and every other track of the kind
\* that was acquired by a call (the stream started with tracks 1 and 2) has
\* been stopped.
C16_OverlappingSwapsLeaveOneTrack ==
    \A kind \in Kind :
        (race[kind].overlapped /\ Settled(kind)) =>
            /\ LocalTracks(kind) = {slot[kind]}
            /\ \A t \in 3..Len(tracks) :
                  (tracks[t].kind = kind /\ t # slot[kind]) =>
                      tracks[t].readyState = "ended"

\* C17: when the call made last on a kind is a mute made while a switchDevice
\* or unmute of the kind awaited getUserMedia, then once that call has
\* completed no live track of the kind is on the slot or in the local stream.
C17_MuteNotLost ==
    \A kind \in Kind :
        (race[kind].muted /\ Settled(kind)) =>
            /\ slot[kind] # 0 => tracks[slot[kind]].readyState = "ended"
            /\ \A t \in LocalTracks(kind) : tracks[t].readyState = "ended"

\* C18: a switchDevice call that completes leaves the transceiver of the other
\* kind alone: its sender's track, its encodings and its direction are as
\* before, the new track is not on it, and no publishTrack is started on it.
C18_OtherTransceiverUntouched ==
    [][(last'.op = "switchDevice" /\ last'.phase = "done") =>
          \A other \in Kind \ {last'.kind} :
              /\ slot'[other] = slot[other]
              /\ slot'[other] # last'.next
              /\ encodings'[other] = encodings[other]
              /\ direction'[other] = direction[other]
              /\ TasksOn(tasks', other) = TasksOn(tasks, other)]_vars

(***************************************************************************)
(* Claims about the RemoteStream (checked under SpecRemote)                *)
(***************************************************************************)
LastCall == rlog[Len(rlog)]

\* C1: every preferLayer / mute / unmute call sends exactly one selection,
\* and the last message sent is the JSON text of the stream's id with video
\* and audio as they are after the call; nothing is sent before the first
\* call.
C1_FullSelectionSent ==
    /\ Len(api) = Len(rlog)
    /\ Len(api) > 0 =>
         api[Len(api)] = JSONstringify([streamId |-> remote.id,
                                        video |-> remote.video,
                                        audio |-> remote.audio])

C1_Witness ==
    /\ Len(api) >= 2
    /\ ~remote.audio
    /\ remote.video = "medium"
    /\ LastCall = [op |-> "mute", arg |-> "audio"]

\* C2: a call that repeats the call made just before it leaves audio, video
\* and videoPreMute as the first call left them.
C2_RepeatedCallChangesNothing ==
    [][(Len(rlog) > 0 /\ rlog' = Append(rlog, LastCall)) => remote' = remote]_vars

\* C3: a new RemoteStream has audio = true, video = none, videoPreMute =
\* high; preferLayer(L) then mute(video) gives videoPreMute = L, video = none
\* and a last selection {video: none, audio: unchanged}; a following
\* unmute(video) gives video = L and sends a selection with video = L.
C3_MuteVideoRemembersLayer ==
    LET n == Len(rlog)
        Sel(v, a) == JSONstringify([streamId |-> remote.id, video |-> v, audio |-> a])
    IN  /\ n = 0 => /\ remote.audio = TRUE
                    /\ remote.video = "none"
                    /\ remote.videoPreMute = "high"
        /\ \A L \in Layer :
              /\ ( /\ n >= 2
                   /\ rlog[n - 1] = [op |-> "preferLayer", arg |-> L]
                   /\ rlog[n] = [op |-> "mute", arg |-> "video"] )
                  => /\ remote.videoPreMute = L
                     /\ remote.video = "none"
                     /\ \E a \in BOOLEAN : /\ api[n - 1] = Sel(L, a)
                                           /\ api[n] = Sel("none", a)
              /\ ( /\ n >= 3
                   /\ rlog[n - 2] = [op |-> "preferLayer", arg |-> L]
                   /\ rlog[n - 1] = [op |-> "mute", arg |-> "video"]
                   /\ rlog[n] = [op |-> "unmute", arg |-> "video"] )
                  => /\ remote.video = L
                     /\ api[n] = Sel(L, remote.audio)

C3_Witness ==
    /\ Len(rlog) = 4
    /\ rlog[1] = [op |-> "mute", arg |-> "audio"]
    /\ rlog[2] = [op |-> "preferLayer", arg |-> "low"]
    /\ rlog[3] = [op |-> "mute", arg |-> "video"]
    /\ rlog[4] = [op |-> "unmute", arg |-> "video"]
    /\ remote.video = "low"
    /\ ~remote.audio

\* the call made in this step
ThisCall == rlog'[Len(rlog')]

Calls(op, arg) == rlog' # rlog /\ ThisCall = [op |-> op, arg |-> arg]

\* C19: mute('audio') and unmute('audio') leave video and videoPreMute as they
\* are, mute('video') and unmute('video') leave audio as it is, preferLayer
\* leaves audio and videoPreMute as they are, and only mute('video') changes
\* videoPreMute.
C19_RemoteCallsChangeOwnFields ==
    [][/\ (Calls("mute", "audio") \/ Calls("unmute", "audio")) =>
              remote'.video = remote.video /\ remote'.videoPreMute = remote.videoPreMute
       /\ (Calls("mute", "video") \/ Calls("unmute", "video")) =>
              remote'.audio = remote.audio
       /\ (rlog' # rlog /\ ThisCall.op = "preferLayer") =>
              remote'.audio = remote.audio /\ remote'.videoPreMute = remote.videoPreMute
       /\ remote'.videoPreMute # remote.videoPreMute => Calls("mute", "video")
       /\ remote'.id = remote.id]_vars

C19_Witness ==
    /\ rlog = << [op |-> "preferLayer", arg |-> "low"], [op |-> "mute", arg |-> "audio"],
                 [op |-> "mute", arg |-> "video"], [op |-> "unmute", arg |-> "audio"] >>
    /\ remote.audio
    /\ remote.video = "none"
    /\ remote.videoPreMute = "low"

\* the calls of a log that set video
VideoCalls(log) ==
    {i \in 1..Len(log) : log[i].op = "preferLayer" \/ log[i].arg = "video"}

PreferLayerCalls(log) == {i \in 1..Len(log) : log[i].op = "preferLayer"}

Latest(S) == CHOOSE i \in S : \A j \in S : j <= i

\* C20: after every call, a video that is not 'none' is the layer of the
\* latest preferLayer call, or 'high' when there was none and video was muted
\* and unmuted; and unmute('video') changes video only when video is 'none'
\* and the latest call that set video is a mute('video').
C20_PreMuteNeverOverrides ==
    [][rlog' # rlog =>
          /\ remote'.video # "none" =>
                IF PreferLayerCalls(rlog') # {}
                THEN remote'.video = rlog'[Latest(PreferLayerCalls(rlog'))].arg
                ELSE /\ remote'.video = "high"
                     /\ \E i, j \in 1..Len(rlog') :
                           /\ i < j
                           /\ rlog'[i] = [op |-> "mute", arg |-> "video"]
                           /\ rlog'[j] = [op |-> "unmute", arg |-> "video"]
          /\ (Calls("unmute", "video") /\ remote'.video # remote.video) =>
                /\ remote.video = "none"
                /\ VideoCalls(rlog) # {}
                /\ rlog[Latest(VideoCalls(rlog))] = [op |-> "mute", arg |-> "video"]]_vars

====
